---- MODULE Spec2Model ----
(***************************************************************************)
(* Two inference drivers of the repository:                                *)
(*   paddlenlp/ops/faster_transformer/sample/mbart_inference.py            *)
(*       postprocess_response: eos truncation and bos/eos stripping        *)
(*   tests/test_tipc/ernie_text_matching/predict.py                        *)
(*       Predictor.__init__ (backend configuration) and Predictor.predict  *)
(*       (batch assembly, backend run, argmax decode, timing hooks)        *)
(***************************************************************************)
EXTENDS Integers, Sequences, FiniteSets, TLC

VARIABLES
    \* ---- mbart_inference.py ----
    seq,        \* the id list passed to postprocess_response
    bos_idx,    \* the bos id passed to postprocess_response
    eos_idx,    \* the eos id passed to postprocess_response
    handed,     \* the id list handed to tokenizer.convert_ids_to_string
    prev,       \* the id list the application before the latest one handed over
    res,        \* the string postprocess_response returned
    applied,    \* number of applications of postprocess_response so far
    \* ---- predict.py ----
    args,       \* the module global `args` (set only by the __main__ block)
    opts,       \* the arguments of the Predictor(...) call
    ctor,       \* how Predictor.__init__ ended: "none", "ok", "ValueError"
    self,       \* the attributes __init__ set on the Predictor object
    config,     \* the calls applied to the paddle.inference.Config object
    feeds,      \* what the input handles hold (copy_from_cpu)
    probs,      \* what the output handle holds after predictor.run()
    pending,    \* the batch the driver passes next, and the backend's output for it
    timer,      \* the self.autolog.times events of the latest predict call
    call,       \* the arguments of the latest predict call
    outcome,    \* how the latest predict call ended
    labels,     \* what the latest predict call returned
    runs        \* number of predict calls so far (counted up to MaxRuns)

mbartVars == <<seq, bos_idx, eos_idx, handed, prev, res, applied>>

ernieVars == <<args, opts, ctor, self, config, feeds, probs, pending, timer,
               call, outcome, labels, runs>>

vars == <<seq, bos_idx, eos_idx, handed, prev, res, applied,
          args, opts, ctor, self, config, feeds, probs, pending, timer,
          call, outcome, labels, runs>>

-----------------------------------------------------------------------------
\* Bounds of the mbart model.
MaxLen == 4
MaxId == 2

Ids == 0..MaxId

RECURSIVE SeqsUpTo(_, _)
SeqsUpTo(S, n) ==
    IF n = 0 THEN {<<>>}
    ELSE LET shorter == SeqsUpTo(S, n - 1)
         IN  shorter \cup {Append(s, x) : s \in {t \in shorter : Len(t) = n - 1}, x \in S}

IdSeqs == SeqsUpTo(Ids, MaxLen)

-----------------------------------------------------------------------------
\* postprocess_response, lines 42-46: eos_pos starts at len(seq) - 1 and the
\* forward scan stops at the first idx equal to eos_idx (0-based positions).
RECURSIVE ScanEos(_, _, _, _)
ScanEos(s, eos, i, eos_pos) ==
    IF i >= Len(s) THEN eos_pos
    ELSE IF s[i + 1] = eos THEN i
    ELSE ScanEos(s, eos, i + 1, eos_pos)

\* A scan without the break of line 46: the last eos wins.
RECURSIVE ScanEosNoBreak(_, _, _, _)
ScanEosNoBreak(s, eos, i, eos_pos) ==
    IF i >= Len(s) THEN eos_pos
    ELSE ScanEosNoBreak(s, eos, i + 1, IF s[i + 1] = eos THEN i ELSE eos_pos)

EosPosNoBreak(s, eos) == ScanEosNoBreak(s, eos, 0, Len(s) - 1)

\* A default of len(seq) - 2 instead of len(seq) - 1.
EosPosShortDefault(s, eos) == ScanEos(s, eos, 0, Len(s) - 2)

EosPos(s, eos) == ScanEos(s, eos, 0, Len(s) - 1)

\* Python's seq[:n] for any integer n (a negative n counts from the end).
SliceTo(s, n) ==
    LET stop == IF n < 0 THEN (IF Len(s) + n < 0 THEN 0 ELSE Len(s) + n)
                ELSE (IF n > Len(s) THEN Len(s) ELSE n)
    IN  SubSeq(s, 1, stop)

\* lines 47-49: the list comprehension over seq[:eos_pos + 1].
StripIds(s, bos, eos) ==
    LET keep(idx) == idx # bos /\ idx # eos
    IN  SelectSeq(SliceTo(s, EosPos(s, eos) + 1), keep)

\* tokenizer.convert_ids_to_string (line 50): every id becomes its vocabulary
\* token and the tokens are joined in order.
RECURSIVE convert_ids_to_string(_)
convert_ids_to_string(ids) ==
    IF ids = <<>> THEN ""
    ELSE "<" \o ToString(Head(ids)) \o ">" \o convert_ids_to_string(Tail(ids))

-----------------------------------------------------------------------------
\* Bounds of the predict.py model.
MaxBatch == 2
MaxScore == 1
MaxRuns == 2

\* Program constants of predict.py.
GpuMemoryPoolMb == 100
GpuDeviceId == 0
MinSubgraphSize == 30
MkldnnCacheCapacity == 10
XpuL3WorkspaceSize == 100
DefaultMaxSeqLength == 128
DefaultBatchSize == 32
DefaultCpuThreads == 10

ModelFile == "inference.pdmodel"
ParamsFile == "inference.pdiparams"

\* A model directory is the set of files it holds (os.path.exists).
ModelDirs == SUBSET {ModelFile, ParamsFile}
FullModelDir == {ModelFile, ParamsFile}
exists(model_dir, file) == file \in model_dir

Devices == {"gpu", "cpu", "xpu"}
Precisions == {"fp32", "fp16", "int8"}

\* precision_map, lines 75-79.
precision_map ==
    [p \in Precisions |->
        CASE p = "fp16" -> "Half"
          [] p = "fp32" -> "Float32"
          [] p = "int8" -> "Int8"]

\* The arguments of Predictor.__init__, lines 48-58.
AllOpts ==
    [model_dir : ModelDirs, device : Devices, max_seq_length : {DefaultMaxSeqLength},
     batch_size : {1, DefaultBatchSize}, use_tensorrt : BOOLEAN,
     precision : Precisions, cpu_threads : {1, DefaultCpuThreads},
     enable_mkldnn : BOOLEAN, benchmark : BOOLEAN]

\* The default arguments of lines 50-57 with the model present; max_seq_length
\* small enough for the tokenizer to truncate, or the default.
DefaultOpts ==
    [model_dir : {FullModelDir}, device : {"gpu"},
     max_seq_length : {2, DefaultMaxSeqLength},
     batch_size : {DefaultBatchSize}, use_tensorrt : {FALSE},
     precision : {"fp32"}, cpu_threads : {DefaultCpuThreads},
     enable_mkldnn : {FALSE}, benchmark : BOOLEAN]

NoOpts == [o \in {} |-> 0]
NoObject == [a \in {} |-> 0]

\* The module global `args`: bound by line 195 when the file runs as a
\* script, unbound when the module is imported.
ArgsUnbound == [bound |-> FALSE, benchmark |-> FALSE]
ArgsParsed(o) == [bound |-> TRUE, benchmark |-> o.benchmark]

Call(op, kwargs) == [op |-> op, args |-> kwargs]

\* lines 71-97: the device branch of __init__.
DeviceCalls(o) ==
    CASE o.device = "gpu" ->
            <<Call("enable_use_gpu",
                   [memory_pool_init_size_mb |-> GpuMemoryPoolMb, device_id |-> GpuDeviceId])>>
            \o (IF o.use_tensorrt
                THEN <<Call("enable_tensorrt_engine",
                            [max_batch_size |-> o.batch_size,
                             min_subgraph_size |-> MinSubgraphSize,
                             precision_mode |-> precision_map[o.precision]])>>
                ELSE <<>>)
      [] o.device = "cpu" ->
            <<Call("disable_gpu", NoOpts)>>
            \o (IF o.enable_mkldnn
                THEN <<Call("set_mkldnn_cache_capacity", [capacity |-> MkldnnCacheCapacity]),
                       Call("enable_mkldnn", NoOpts)>>
                ELSE <<>>)
            \o <<Call("set_cpu_math_library_num_threads", [n |-> o.cpu_threads])>>
      [] o.device = "xpu" ->
            <<Call("enable_xpu", [l3_workspace_size |-> XpuL3WorkspaceSize])>>

\* The calls of lines 69-100 with line 99 after line 100: the feed/fetch
\* switch reaches the Config object after the predictor was created from it.
BackendCallsLateSwitch(o) ==
    <<Call("Config", [model_file |-> ModelFile, params_file |-> ParamsFile])>>
    \o DeviceCalls(o)
    \o <<Call("create_predictor", NoOpts)>>
    \o <<Call("switch_use_feed_fetch_ops", [x |-> FALSE])>>

\* lines 69-100: the calls __init__ makes on the backend, in program order.
BackendCalls(o) ==
    <<Call("Config", [model_file |-> ModelFile, params_file |-> ParamsFile])>>
    \o DeviceCalls(o)
    \o <<Call("switch_use_feed_fetch_ops", [x |-> FALSE])>>
    \o <<Call("create_predictor", NoOpts)>>

IsConfigCall(c) == c.op # "create_predictor"

\* The configuration a predictor is created from: the calls applied to the
\* Config object before create_predictor read it.
RECURSIVE AppliedBeforeCreate(_)
AppliedBeforeCreate(calls) ==
    IF calls = <<>> \/ ~IsConfigCall(Head(calls)) THEN <<>>
    ELSE <<Head(calls)>> \o AppliedBeforeCreate(Tail(calls))

\* Only the model file is looked for.
ArtifactMissingModelOnly(o) == ~exists(o.model_dir, ModelFile)

\* lines 65-68: the checks that raise ValueError.
ArtifactMissing(o) ==
    \/ ~exists(o.model_dir, ModelFile)
    \/ ~exists(o.model_dir, ParamsFile)

\* lines 59-61: the attributes set before the checks.
EarlyAttrs(o) ==
    [max_seq_length |-> o.max_seq_length, batch_size |-> o.batch_size,
     benchmark |-> o.benchmark]

\* lines 100-106: the predictor (bound to the configuration it was created
\* from) and its handles; the exported ernie model has two inputs, one output.
EngineAttrs(o) ==
    [predictor |-> [config |-> AppliedBeforeCreate(BackendCalls(o))],
     input_handles |-> <<"input_ids", "token_type_ids">>,
     output_handle |-> "output"]

\* lines 108-126.
LogAttrs(o) ==
    IF o.benchmark
    THEN [autolog |-> [model_name |-> "ernie-tiny", model_precision |-> o.precision,
                       batch_size |-> o.batch_size]]
    ELSE NoObject

-----------------------------------------------------------------------------
\* Predictor.predict.

\* tokenizer.pad_token_id of the ernie vocabulary.
pad_token_id == 0

\* A text stands for the ids and type ids the tokenizer gives it in full.
Text1 == [ids |-> <<1, 2, 3>>, type_ids |-> <<0, 0, 1>>]
Text2 == [ids |-> <<4, 5>>, type_ids |-> <<0, 1>>]
Texts == {Text1, Text2}

\* tokenizer(text=..., text_pair=..., max_seq_len=...), lines 32-34: the two
\* fields have one length, at most max_seq_len.
Encode(text, max_seq_len) ==
    LET n == IF Len(text.ids) > max_seq_len THEN max_seq_len ELSE Len(text.ids)
    IN  [input_ids |-> SubSeq(text.ids, 1, n),
         token_type_ids |-> SubSeq(text.type_ids, 1, n)]

\* convert_example with is_test=True, lines 28-43.
convert_example(example, max_seq_length) ==
    LET encoded_inputs == Encode(example, max_seq_length)
    IN  <<encoded_inputs.input_ids, encoded_inputs.token_type_ids>>

\* The loop of lines 144-151 with insert(0, ...) for append.
RECURSIVE BuildExamplesReversed(_, _)
BuildExamplesReversed(data, max_seq_length) ==
    IF data = <<>> THEN <<>>
    ELSE Append(BuildExamplesReversed(Tail(data), max_seq_length),
                convert_example(Head(data), max_seq_length))

\* lines 144-151: one (input_ids, segment_ids) pair per text, appended in order.
RECURSIVE BuildExamples(_, _)
BuildExamples(data, max_seq_length) ==
    IF data = <<>> THEN <<>>
    ELSE <<convert_example(Head(data), max_seq_length)>>
         \o BuildExamples(Tail(data), max_seq_length)

RECURSIVE MaxOf(_)
MaxOf(lens) ==
    IF Len(lens) = 1 THEN Head(lens)
    ELSE LET m == MaxOf(Tail(lens)) IN IF Head(lens) > m THEN Head(lens) ELSE m

\* paddlenlp.data.Pad with trailing padding: a row is its sequence followed
\* by (max_len - len) copies of pad_val.
PadRow(s, max_len, pad_val) ==
    s \o [i \in 1..(max_len - Len(s)) |-> pad_val]

\* batchify_fn, lines 153-156 and 161: Tuple(Pad, Pad) pads field by field,
\* with the width the primary field gives.
batchify_fn(samples, pad_val) ==
    LET max_len == MaxOf([i \in 1..Len(samples) |-> Len(samples[i][1])])
    IN  <<[i \in 1..Len(samples) |-> PadRow(samples[i][1], max_len, pad_val)],
          [i \in 1..Len(samples) |-> PadRow(samples[i][2], max_len, pad_val)]>>

\* An argmax that keeps the last maximum of a row.
RECURSIVE ScanMaxLast(_, _, _)
ScanMaxLast(row, i, best) ==
    IF i > Len(row) THEN best
    ELSE ScanMaxLast(row, i + 1, IF row[i] >= row[best] THEN i ELSE best)

ArgmaxLast(row) == ScanMaxLast(row, 2, 1) - 1

\* np.argmax over one row, line 170: the 0-based index of the first maximum.
RECURSIVE ScanMax(_, _, _)
ScanMax(row, i, best) ==
    IF i > Len(row) THEN best
    ELSE ScanMax(row, i + 1, IF row[i] > row[best] THEN i ELSE best)

Argmax(row) == ScanMax(row, 2, 1) - 1

\* lines 170-171: np.argmax(probs, axis=1).tolist().
ArgmaxRows(p) == [i \in 1..Len(p) |-> Argmax(p[i])]

\* The timer events of lines 141-142 and 158-159 (self.benchmark).
StartEvents(obj) == IF obj.benchmark THEN <<"start", "stamp">> ELSE <<>>

\* The timer event of lines 166-167 (self.benchmark).
InferenceEvents(obj) == IF obj.benchmark THEN <<"stamp">> ELSE <<>>

\* Line 174 reads the module global args, not self.benchmark.
EndReadable(a, obj) == a.bound /\ (a.benchmark => "autolog" \in DOMAIN obj)
EndEvents(a, obj) == IF a.benchmark THEN <<"end">> ELSE <<>>
EndError(a, obj) == IF ~a.bound THEN "NameError" ELSE "AttributeError"

\* label_map of line 216, and a map for a three-class model.
LabelMapMain == (0 :> "dissimilar") @@ (1 :> "similar")
LabelMapThree == (0 :> "negative") @@ (1 :> "neutral") @@ (2 :> "positive")
LabelMaps == {LabelMapMain, LabelMapThree}

\* The number of classes of the exported model (the width of probs).
ClassCounts == {2, 3}
Scores == 0..MaxScore

AllData == SeqsUpTo(Texts, MaxBatch)

-----------------------------------------------------------------------------
\* mbart_inference.py: the state before postprocess_response is called.
InputsMBart ==
    /\ seq \in IdSeqs
    /\ bos_idx \in Ids
    /\ eos_idx \in Ids
    /\ handed = <<>>
    /\ prev = <<>>
    /\ res = ""
    /\ applied = 0

\* The mbart script not started.
IdleMBart ==
    /\ seq = <<>>
    /\ bos_idx = 0
    /\ eos_idx = 0
    /\ handed = <<>>
    /\ prev = <<>>
    /\ res = ""
    /\ applied = 0

\* A batch of texts, the label map passed with it, and the scores the backend
\* gives for it.
Batch(data, out, label_map) == [data |-> data, out |-> out, label_map |-> label_map]

\* The driver holds a batch of D with an output the backend can give for it;
\* R holds, per class count, the score rows the backend may give.
HoldsBatch(b, D, R) ==
    \E d \in D, rows \in R, m \in LabelMaps :
        \E out \in [1..Len(d) -> rows] : b = Batch(d, out, m)

\* predict.py: the state before the module is run or imported, the driver
\* holding a batch of D.
StartErnie(D, R) ==
    /\ args = ArgsUnbound
    /\ opts = NoOpts
    /\ ctor = "none"
    /\ self = NoObject
    /\ config = <<>>
    /\ feeds = <<>>
    /\ probs = <<>>
    /\ HoldsBatch(pending, D, R)
    /\ timer = <<>>
    /\ call = [data |-> <<>>, label_map |-> LabelMapMain]
    /\ outcome = "none"
    /\ labels = <<>>
    /\ runs = 0

\* postprocess_response(tokenizer, seq, bos_idx, eos_idx), lines 40-51.
postprocess_response ==
    /\ applied = 0
    /\ handed' = StripIds(seq, bos_idx, eos_idx)
    /\ res' = convert_ids_to_string(handed')
    /\ applied' = 1
    /\ UNCHANGED <<seq, bos_idx, eos_idx, prev>>
    /\ UNCHANGED ernieVars

\* postprocess_response applied again, to the id list the first application
\* produced.
postprocess_again ==
    /\ applied = 1
    /\ prev' = handed
    /\ handed' = StripIds(handed, bos_idx, eos_idx)
    /\ res' = convert_ids_to_string(handed')
    /\ applied' = 2
    /\ UNCHANGED <<seq, bos_idx, eos_idx>>
    /\ UNCHANGED ernieVars

\* Predictor.__init__, lines 48-126, called with the arguments o.
Construct(o) ==
    /\ opts' = o
    /\ IF ArtifactMissing(o)
       THEN /\ ctor' = "ValueError"
            /\ self' = EarlyAttrs(o)
            /\ config' = <<>>
       ELSE /\ ctor' = "ok"
            /\ self' = EarlyAttrs(o) @@ EngineAttrs(o) @@ LogAttrs(o)
            /\ config' = SelectSeq(BackendCalls(o), IsConfigCall)
    /\ UNCHANGED <<feeds, probs, pending, timer, call, outcome, labels, runs>>

\* The __main__ block, lines 195-202: args is parsed and the Predictor is
\* built from it; O is the set of command lines.
Main(O) ==
    /\ ctor = "none"
    /\ \E o \in O :
          /\ args' = ArgsParsed(o)
          /\ Construct(o)
    /\ UNCHANGED mbartVars

\* Another module imports predict.py and builds a Predictor itself: the
\* __main__ block does not run and args stays unbound.
Import(O) ==
    /\ ctor = "none"
    /\ \E o \in O :
          /\ args' = args
          /\ Construct(o)
    /\ UNCHANGED mbartVars

\* What Predictor.predict does with data, label_map and the output out of
\* the backend, lines 141-177.
PredictResult(obj, a, data, out, label_map) ==
    LET examples == BuildExamples(data, obj.max_seq_length)
        idx == ArgmaxRows(out)
        raised(err, events, ran) ==
            [outcome |-> err, timer |-> events, ran |-> ran, labels |-> <<>>]
    IN  IF examples = <<>>
        THEN raised("InvalidInput", StartEvents(obj), FALSE)
        ELSE IF \E i \in 1..Len(idx) : idx[i] \notin DOMAIN label_map
        THEN raised("KeyError", StartEvents(obj) \o InferenceEvents(obj), TRUE)
        ELSE IF ~EndReadable(a, obj)
        THEN raised(EndError(a, obj), StartEvents(obj) \o InferenceEvents(obj), TRUE)
        ELSE [outcome |-> "returned",
              timer |-> StartEvents(obj) \o InferenceEvents(obj) \o EndEvents(a, obj),
              ran |-> TRUE,
              labels |-> [i \in 1..Len(idx) |-> label_map[idx[i]]]]

\* Predictor.predict(data, tokenizer, label_map), lines 128-177, on the
\* pending batch; pending.out is what predictor.run() leaves in the output
\* handle.
Predict ==
    /\ ctor = "ok"
    /\ LET r == PredictResult(self, args, pending.data, pending.out, pending.label_map)
       IN  /\ outcome' = r.outcome
           /\ timer' = r.timer
           /\ labels' = r.labels
           /\ feeds' = IF r.ran
                       THEN batchify_fn(BuildExamples(pending.data, self.max_seq_length),
                                        pad_token_id)
                       ELSE feeds
           /\ probs' = IF r.ran THEN pending.out ELSE probs
    /\ call' = [data |-> pending.data, label_map |-> pending.label_map]
    /\ runs' = IF runs < MaxRuns THEN runs + 1 ELSE runs
    /\ UNCHANGED <<args, opts, ctor, self, config, pending>>
    /\ UNCHANGED mbartVars

\* The driver moves on to another batch of D (lines 219-220).
NextBatch(D, R) ==
    /\ ctor = "ok"
    /\ outcome # "none"
    /\ HoldsBatch(pending', D, R)
    /\ pending' # pending
    /\ UNCHANGED <<args, opts, ctor, self, config, feeds, probs, timer, call,
                   outcome, labels, runs>>
    /\ UNCHANGED mbartVars

-----------------------------------------------------------------------------
\* mbart_inference.py: postprocess_response on every bounded input.
InitMBart == InputsMBart /\ StartErnie({<<>>}, {{}})

NextMBart ==
    \/ postprocess_response
    \/ postprocess_again

SpecMBart == InitMBart /\ [][NextMBart]_vars

\* predict.py: every argument combination of the constructor; predict calls
\* on the empty batch and on a batch of both texts.
ProbeData == {<<>>, <<Text1, Text2>>}
ProbeRows == {{<<0, 1>>}, {<<0, 1, 1>>}}

InitErnie == IdleMBart /\ StartErnie(ProbeData, ProbeRows)

NextErnie ==
    \/ Main(AllOpts)
    \/ Import(AllOpts)
    \/ Predict
    \/ NextBatch(ProbeData, ProbeRows)

SpecErnie == InitErnie /\ [][NextErnie]_vars

\* predict.py: batch assembly on every bounded batch of texts.
AssembleRows == {{<<0, 1>>}}

InitAssemble == IdleMBart /\ StartErnie(AllData, AssembleRows)

NextAssemble ==
    \/ Main(DefaultOpts)
    \/ Import(DefaultOpts)
    \/ Predict

SpecAssemble == InitAssemble /\ [][NextAssemble]_vars

\* predict.py: classification decode on every bounded score matrix.
ClassifyOpts ==
    {o \in DefaultOpts : o.max_seq_length = DefaultMaxSeqLength /\ ~o.benchmark}
ClassifyData == {d \in AllData : \A i \in 1..Len(d) : d[i] = Text2}
ClassifyRows == {[1..c -> Scores] : c \in ClassCounts}

InitClassify == IdleMBart /\ StartErnie(ClassifyData, ClassifyRows)

NextClassify ==
    \/ Main(ClassifyOpts)
    \/ Import(ClassifyOpts)
    \/ Predict

SpecClassify == InitClassify /\ [][NextClassify]_vars

-----------------------------------------------------------------------------
\* Properties of postprocess_response, under SpecMBart.

\* The id list the latest application of postprocess_response was given.
DecodeInput == IF applied = 2 THEN prev ELSE seq

\* The 1-based position of the first eos in s, or the last position of s.
TruncationPoint(s, eos) ==
    LET hits == {i \in 1..Len(s) : s[i] = eos}
    IN  IF hits = {} THEN Len(s) ELSE CHOOSE i \in hits : \A j \in hits : i <= j

\* ids is s[1..p] without bos and eos, in the original order.
IsStrippedPrefix(ids, s, p, bos, eos) ==
    LET kept == {i \in 1..p : s[i] # bos /\ s[i] # eos}
        nth(k) == CHOOSE i \in kept : Cardinality({j \in kept : j <= i}) = k
    IN  /\ Len(ids) = Cardinality(kept)
        /\ \A k \in 1..Len(ids) : ids[k] = s[nth(k)]

\* C1: the id list handed to the vocabulary is seq[0..p] with every bos_id and
\* eos_id removed, in the original order, where p is the position of the first
\* eos_id or the last position of seq; the string is built from that list only.
C1_DecodeTruncatesAndStrips ==
    applied >= 1 =>
        /\ IsStrippedPrefix(handed, DecodeInput,
                            TruncationPoint(DecodeInput, eos_idx), bos_idx, eos_idx)
        /\ res = convert_ids_to_string(handed)

\* C1 witness: [0,1,2,1] with bos 0 and eos 2 is cut at the eos and hands over [1].
C1_Witness ==
    /\ applied = 1
    /\ seq = <<0, 1, 2, 1>>
    /\ bos_idx = 0
    /\ eos_idx = 2
    /\ handed = <<1>>

\* C7: applying postprocess_response's truncate-and-strip step to the id list
\* it already produced returns that same id list, and the same string.
C7_DecodeIdempotent ==
    applied = 2 => (handed = prev /\ res = convert_ids_to_string(prev))

\* C7 witness: a second application on the non-empty list a truncated, stripped
\* sequence produced.
C7_Witness ==
    /\ applied = 2
    /\ seq = <<0, 1, 2, 1>>
    /\ bos_idx = 0
    /\ eos_idx = 2
    /\ prev = <<1>>
    /\ handed = <<1>>

-----------------------------------------------------------------------------
\* Properties of Predictor.predict's batch assembly, under SpecAssemble.

\* The token-id sequences the tokenizer gave for the latest call, per field.
SourceIds ==
    [i \in 1..Len(call.data) |-> Encode(call.data[i], self.max_seq_length).input_ids]
SourceTypeIds ==
    [i \in 1..Len(call.data) |-> Encode(call.data[i], self.max_seq_length).token_type_ids]

\* rows is one row per source, in order, each its source followed by pad ids
\* up to the longest source's length.
IsTrailingPadded(rows, srcs, pad) ==
    LET lens == {Len(srcs[i]) : i \in 1..Len(srcs)}
        max_len == CHOOSE m \in lens : \A l \in lens : l <= m
    IN  /\ Len(rows) = Len(srcs)
        /\ \A i \in 1..Len(srcs) :
              /\ Len(rows[i]) = max_len
              /\ SubSeq(rows[i], 1, Len(srcs[i])) = srcs[i]
              /\ \A j \in (Len(srcs[i]) + 1)..max_len : rows[i][j] = pad

\* C2: for a non-empty batch, the assembled batch has one row per input
\* sequence in input order, its width is the true maximum input length, and
\* every row is its source sequence followed by trailing pad ids.
C2_BatchAssembly ==
    (outcome \notin {"none", "InvalidInput"}) =>
        /\ call.data # <<>>
        /\ IsTrailingPadded(feeds[1], SourceIds, pad_token_id)
        /\ IsTrailingPadded(feeds[2], SourceTypeIds, pad_token_id)

\* C2 witness: [[1,2,3],[4,5]] with pad id 0 gives rows [1,2,3] and [4,5,0].
C2_Witness ==
    /\ outcome = "returned"
    /\ call.data = <<Text1, Text2>>
    /\ feeds[1] = <<(<<1, 2, 3>>), (<<4, 5, 0>>)>>

-----------------------------------------------------------------------------
\* Properties of Predictor.predict's classification decode, under SpecClassify.

\* The 1-based position of the first maximum of row.
FirstMax(row) ==
    CHOOSE k \in 1..Len(row) :
        /\ \A j \in 1..Len(row) : row[j] <= row[k]
        /\ \A j \in 1..(k - 1) : row[j] < row[k]

\* C5: predict returns one label per row, in row order, and the label of row i
\* is label_map[k] for the lowest index k at which row i attains its maximum;
\* it raises KeyError only when such an index has no entry in label_map.
C5_StableArgmaxDecode ==
    /\ outcome = "returned" =>
          /\ Len(labels) = Len(call.data)
          /\ Len(probs) = Len(call.data)
          /\ \A i \in 1..Len(probs) :
                /\ (FirstMax(probs[i]) - 1) \in DOMAIN call.label_map
                /\ labels[i] = call.label_map[FirstMax(probs[i]) - 1]
    /\ outcome = "KeyError" =>
          \E i \in 1..Len(probs) : (FirstMax(probs[i]) - 1) \notin DOMAIN call.label_map

\* C5 witness: scores [0,1,1] select index 1.
C5_Witness ==
    /\ outcome = "returned"
    /\ probs = <<(<<0, 1, 1>>)>>
    /\ labels = <<"neutral">>

-----------------------------------------------------------------------------
\* Properties of Predictor.__init__ and of the predict calls on the object it
\* builds, under SpecErnie.

ArtifactPresent == {ModelFile, ParamsFile} \subseteq opts.model_dir

HasEngine ==
    \/ "predictor" \in DOMAIN self
    \/ "input_handles" \in DOMAIN self
    \/ "output_handle" \in DOMAIN self

\* C3: construction with device = CPU and use_accelerator = true fails with
\* UnsupportedConfiguration, whatever the other options, and creates no engine.
C3_CpuAcceleratorRejected ==
    (ctor # "none" /\ ArtifactPresent /\ opts.device = "cpu" /\ opts.use_tensorrt) =>
        (ctor = "UnsupportedConfiguration" /\ ~HasEngine)

\* C4: construction on GPU with precision Half or Int8 and use_accelerator =
\* false fails with UnsupportedConfiguration and creates no engine.
C4_GpuPrecisionWithoutAcceleratorRejected ==
    (/\ ctor # "none"
     /\ ArtifactPresent
     /\ opts.device = "gpu"
     /\ opts.precision \in {"fp16", "int8"}
     /\ ~opts.use_tensorrt) =>
        (ctor = "UnsupportedConfiguration" /\ ~HasEngine)

\* C8: construction with the model file or the params file absent fails before
\* any backend configuration or predictor is created: the object has no
\* predictor, no input handles and no output handle, and no predict call runs
\* on it.
C8_MissingArtifactAbortsConstruction ==
    (ctor # "none" /\ ~ArtifactPresent) =>
        /\ ctor = "ValueError"
        /\ config = <<>>
        /\ ~HasEngine
        /\ outcome = "none"
        /\ runs = 0
        /\ ~ENABLED Predict

\* C8 witness: the params file alone is absent.
C8_Witness ==
    /\ ctor = "ValueError"
    /\ opts.model_dir = {ModelFile}
    /\ opts.benchmark

HasOp(calls, op) == \E i \in 1..Len(calls) : calls[i].op = op

\* Every setting the options ask for is among calls.
SettingsApplied(calls) ==
    /\ HasOp(calls, "switch_use_feed_fetch_ops")
    /\ opts.device = "gpu" => HasOp(calls, "enable_use_gpu")
    /\ (opts.device = "gpu" /\ opts.use_tensorrt) =>
          \E i \in 1..Len(calls) :
              /\ calls[i].op = "enable_tensorrt_engine"
              /\ calls[i].args.precision_mode = precision_map[opts.precision]
              /\ calls[i].args.max_batch_size = opts.batch_size
    /\ opts.device = "cpu" =>
          \E i \in 1..Len(calls) :
              /\ calls[i].op = "set_cpu_math_library_num_threads"
              /\ calls[i].args.n = opts.cpu_threads
    /\ (opts.device = "cpu" /\ opts.enable_mkldnn) =>
          /\ HasOp(calls, "set_mkldnn_cache_capacity")
          /\ HasOp(calls, "enable_mkldnn")
    /\ opts.device = "xpu" => HasOp(calls, "enable_xpu")

\* The predictor was created from every setting applied to the configuration.
BoundToConfiguration ==
    ctor = "ok" =>
        /\ self.predictor.config = config
        /\ SettingsApplied(self.predictor.config)
        /\ ENABLED Predict

\* C9: every configuration setting is applied before the predictor is created,
\* no predict call changes the configuration, the predictor or the handles,
\* and a predict call can always be issued on the handle.
C9_HandleBoundToOneConfiguration ==
    /\ []BoundToConfiguration
    /\ [][ctor = "ok" => (ctor' = ctor /\ config' = config /\ self' = self)]_vars

\* C9 witness: a CPU handle with mkldnn after two predict calls.
C9_Witness ==
    /\ ctor = "ok"
    /\ opts.device = "cpu"
    /\ opts.enable_mkldnn
    /\ runs >= 2
    /\ outcome = "returned"

\* C10: in a predict call on a Predictor built with benchmark = b that its
\* inputs do not fail, the timer events are start, stamp, stamp, end when b
\* is true and none when b is false, and predict returns the labels.
C10_TimingPairedWithHandle ==
    (outcome \notin {"none", "InvalidInput", "KeyError"}) =>
        /\ timer = IF self.benchmark THEN <<"start", "stamp", "stamp", "end">> ELSE <<>>
        /\ outcome = "returned"

====
